---- MODULE Spec2Model ----
(***************************************************************************)
(* Model of launcher.py: GPU probe, device selection, engine cache         *)
(* management (restore / build / persist) and inference launch.  The       *)
(* engine directory persists across runs of the launcher; everything else  *)
(* is recreated by every run.                                              *)
(***************************************************************************)
EXTENDS Integers, Sequences, FiniteSets, TLC

\* ------------------------------------------------------------------ bounds
\* Number of launcher runs in one behaviour.
MaxRuns == 3
\* Number of rows printed by nvidia-smi.
MaxRows == 2
\* Number of answers typed at the interactive prompt in one run.
MaxPrompts == 2
\* Number of pass-through arguments (SpecArgs).
MaxArgs == 3
\* Length of a device name (SpecName).
MaxNameLen == 3

\* ------------------------------------------------------------- characters
Digits == {"0", "1", "2", "3", "4", "5", "6", "7", "8", "9"}

Letters ==
  {"a", "b", "c", "d", "e", "f", "g", "h", "i", "j", "k", "l", "m",
   "n", "o", "p", "q", "r", "s", "t", "u", "v", "w", "x", "y", "z",
   "A", "B", "C", "D", "E", "F", "G", "H", "I", "J", "K", "L", "M",
   "N", "O", "P", "Q", "R", "S", "T", "U", "V", "W", "X", "Y", "Z"}

\* The character class [a-zA-Z0-9] of the sanitizing regular expression.
Alnum == Letters \cup Digits

DigitVal(c) ==
  CASE c = "0" -> 0 [] c = "1" -> 1 [] c = "2" -> 2 [] c = "3" -> 3
    [] c = "4" -> 4 [] c = "5" -> 5 [] c = "6" -> 6 [] c = "7" -> 7
    [] c = "8" -> 8 [] c = "9" -> 9

DigitChar(n) ==
  CASE n = 0 -> "0" [] n = 1 -> "1" [] n = 2 -> "2" [] n = 3 -> "3"
    [] n = 4 -> "4" [] n = 5 -> "5" [] n = 6 -> "6" [] n = 7 -> "7"
    [] n = 8 -> "8" [] n = 9 -> "9"

\* str.strip(): leading and trailing blanks removed.
RECURSIVE LStrip(_)
LStrip(s) == IF s # <<>> /\ Head(s) = " " THEN LStrip(Tail(s)) ELSE s

RECURSIVE RStrip(_)
RStrip(s) ==
  IF s # <<>> /\ s[Len(s)] = " " THEN RStrip(SubSeq(s, 1, Len(s) - 1)) ELSE s

Strip(s) == RStrip(LStrip(s))

\* int(text) of a non-negative decimal: the text is stripped, and a text
\* that is empty or holds a non-digit raises ValueError.
IsIntText(s) == Strip(s) # <<>> /\ \A i \in 1..Len(Strip(s)) : Strip(s)[i] \in Digits

RECURSIVE DecValue(_)
DecValue(s) ==
  IF s = <<>> THEN 0
  ELSE 10 * DecValue(SubSeq(s, 1, Len(s) - 1)) + DigitVal(s[Len(s)])

ParseInt(s) == DecValue(Strip(s))

\* str(n) of a non-negative integer.
RECURSIVE IntToStr(_)
IntToStr(n) ==
  IF n < 10 THEN <<DigitChar(n)>>
  ELSE Append(IntToStr(n \div 10), DigitChar(n % 10))

\* ---------------------------------------------------------------- devices
\* Device names as nvidia-smi prints them; the last two differ only in a
\* character that is not alphanumeric.
Names == {<<"T", "4">>, <<"L", " ", "4">>, <<"L", "-", "4">>}

Memory == <<"8", "G">>

\* A row of the CSV report, as csv.reader splits it; nvidia-smi prints a
\* blank after every comma.
GoodRow(i, n) == <<IntToStr(i), <<" ">> \o n, <<" ">> \o Memory>>
ShortRow(i) == <<IntToStr(i), <<" ">> \o Memory>>
BadRow == <<<<"N", "/", "A">>, <<" ">> \o Memory, <<" ">> \o Memory>>

\* The rows nvidia-smi may print at position p (row p reports index p-1).
RowsAt(p) == {GoodRow(p - 1, n) : n \in Names} \cup {ShortRow(p - 1), BadRow}

Reports ==
  UNION {{r \in [1..k -> UNION {RowsAt(p) : p \in 1..MaxRows}] :
            \A p \in 1..k : r[p] \in RowsAt(p)} : k \in 0..MaxRows}

\* Lines 26-35: the rows of at least three fields, in order.
RECURSIVE ParseRows(_)
ParseRows(rows) ==
  IF rows = <<>> THEN <<>>
  ELSE IF Len(Head(rows)) < 3 THEN ParseRows(Tail(rows))
  ELSE <<[index |-> ParseInt(Head(rows)[1]),
          name |-> Strip(Head(rows)[2]),
          memory |-> Strip(Head(rows)[3])]>> \o ParseRows(Tail(rows))

\* int(row[0].strip()) raises ValueError on some row of three fields.
ParseRaises(rows) ==
  \E p \in 1..Len(rows) : Len(rows[p]) >= 3 /\ ~IsIntText(rows[p][1])

\* A report with a row of three or more fields whose first field is no number.
UnparsableReport(rows) ==
  \E p \in 1..Len(rows) :
    /\ Len(rows[p]) >= 3
    /\ \E i \in 1..Len(rows[p][1]) : rows[p][1][i] \notin Digits \cup {" "}

\* Variant of GetGpus that skips a row it cannot parse instead of giving up.
GetGpusSkipBadRows(outcome, rows) ==
  IF outcome # "ok" THEN <<>>
  ELSE ParseRows(SelectSeq(rows, LAMBDA r : Len(r) < 3 \/ IsIntText(r[1])))

\* get_gpus_from_nvidia_smi: outcome is "missing" (FileNotFoundError),
\* "nonzero" (CalledProcessError) or "ok" with the report on stdout.
GetGpus(outcome, rows) ==
  IF outcome # "ok" \/ ParseRaises(rows) THEN <<>> ELSE ParseRows(rows)

\* Variant of get_sanitized_name whose character class also keeps '-'.
SanitizeKeepsDash(name) ==
  [i \in 1..Len(name) |->
     IF name[i] \in Alnum \cup {"-"} THEN name[i] ELSE "_"]

\* re.sub(r'[^a-zA-Z0-9]', '_', name)
get_sanitized_name(name) ==
  [i \in 1..Len(name) |-> IF name[i] \in Alnum THEN name[i] ELSE "_"]

\* The cache keys of the modelled device names.
Keys == {get_sanitized_name(n) : n \in Names}

\* ------------------------------------------------------- engine directory
ACTIVE_ENGINE_NAME == <<"unet_work", ".engine">>

\* f"unet_work_{gpu_name}.engine"
CachedEngineFilename(gpu_name) == <<"unet_work_">> \o gpu_name \o <<".engine">>

Paths == {ACTIVE_ENGINE_NAME} \cup {CachedEngineFilename(k) : k \in Keys}

\* A file's content: the engine that the build of launcher run `run` produced
\* for the device whose cache key is `key`.  Absent: there is no such file.
Absent == [key |-> <<>>, run |-> 0]

Engine(k, r) == [key |-> k, run |-> r]

\* The content of a file that shutil.copy2 was writing from a file of content
\* e when the process was killed: the file exists and holds a prefix of e.
Truncated(e) == [key |-> e.key, run |-> e.run, truncated |-> TRUE]

\* os.path.exists(path)
Exists(dir, path) == dir[path] # Absent

\* Variant of Copy2 that copies nothing.
Copy2Skipped(dir, src, dst) == dir

\* shutil.copy2(src, dst)
Copy2(dir, src, dst) == [dir EXCEPT ![dst] = dir[src]]

\* ------------------------------------------------------------ environment
\* os.environ as a set of <<variable, value>> pairs; only CUDA_VISIBLE_DEVICES
\* is modelled.
CVD == "CUDA_VISIBLE_DEVICES"

Environs == {{}, {<<CVD, <<"0", ",", "1">>>>}}

\* Variant of ChildEnv that keeps an inherited CUDA_VISIBLE_DEVICES
\* (env.setdefault instead of an assignment).
ChildEnvSetdefault(environ, index) ==
  IF \E p \in environ : p[1] = CVD THEN environ
  ELSE environ \cup {<<CVD, IntToStr(index)>>}

\* env = os.environ.copy(); env["CUDA_VISIBLE_DEVICES"] = str(index)
ChildEnv(environ, index) ==
  {p \in environ : p[1] # CVD} \cup {<<CVD, IntToStr(index)>>}

BUILD_SCRIPT == "torch2trt.py"
INFERENCE_SCRIPT == "inference_online.py"

\* ------------------------------------------------------------ command line
\* --gpu absent (argparse leaves None).
NoGpuArg == -1

GpuArgs == {NoGpuArg, 0, 1, 5}

\* The pass-through arguments of the runs of Spec; SpecArgs draws them from
\* AllArgLists.
ArgLists == {<<"--port", "80">>}

\* Tokens of the pass-through arguments; the second holds the flag as a
\* proper substring.
ArgTokens == {"--acceleration", "--acceleration-mode", "tensorrt", "--port"}

AllArgLists == UNION {[1..k -> ArgTokens] : k \in 0..MaxArgs}

\* Variant of PassArgs that looks for the flag inside the elements
\* (a substring match).
PassArgsSubstring(args) ==
  IF \E i \in 1..Len(args) : args[i] \in {"--acceleration", "--acceleration-mode"}
    THEN args
    ELSE args \o <<"--acceleration", "tensorrt">>

\* Lines 156-158.
PassArgs(args) ==
  IF \E i \in 1..Len(args) : args[i] = "--acceleration" THEN args
  ELSE args \o <<"--acceleration", "tensorrt">>

\* selected_gpu = None
NoGpu == [index |-> -1, name |-> <<>>, memory |-> <<>>]

\* Variant of FindGpu that takes the index for a position in the list.
FindGpuByPosition(gs, idx) ==
  IF idx + 1 \in 1..Len(gs) THEN gs[idx + 1] ELSE NoGpu

\* for g in gpus: if g['index'] == idx: selected_gpu = g; break
RECURSIVE FindGpu(_, _)
FindGpu(gs, idx) ==
  IF gs = <<>> THEN NoGpu
  ELSE IF Head(gs).index = idx THEN Head(gs)
  ELSE FindGpu(Tail(gs), idx)

\* What the operator may type at the prompt.
Answers == {IntToStr(i) : i \in 0..MaxRows} \cup {<<"x">>, <<>>}

\* ------------------------------------------------------------------ state
VARIABLES
  run,             \* number of launcher runs started so far
  pc,              \* position of the current run
  exitCode,        \* exit status of the current run, NoExit while it runs
  argGpu,          \* args.gpu
  inference_args,  \* args.inference_args
  environ,         \* os.environ of the launcher
  smi,             \* how the nvidia-smi query of this run ended
  gpus,            \* result of the probe
  selected_gpu,    \* the selected device
  prompts,         \* answers read by input() in this run
  files,           \* the engine directory: path -> content
  result,          \* terminal state of manage_engine in this run
  children,        \* child processes started in this run, in order
  fsOps,           \* operations on the engine directory in this run, in order
  infOutcome,      \* how waiting for the inference child ended
  files0,          \* the engine directory when this run started
  builtBefore,     \* cache keys of earlier runs that ended in MISS-BUILT
  builtBy,         \* device names of earlier runs that ended in MISS-BUILT
  answer,          \* the text input() returned last in this run
  gpu_name         \* gpu_name of manage_engine in this run

vars == <<run, pc, exitCode, argGpu, inference_args, environ, smi, gpus,
          selected_gpu, prompts, files, result, children, fsOps, infOutcome,
          files0, builtBefore, builtBy, answer, gpu_name>>

\* No text was read / manage_engine was not entered.
NoText == <<"None">>

NoExit == -1

\* gpu_name of manage_engine, for the selected device.
SelKey == get_sanitized_name(selected_gpu.name)

active_engine_path == ACTIVE_ENGINE_NAME
cached_engine_path == CachedEngineFilename(SelKey)

Init ==
  /\ run = 0
  /\ pc = "idle"
  /\ exitCode = NoExit
  /\ argGpu = NoGpuArg
  /\ inference_args = <<>>
  /\ environ = {}
  /\ smi = "none"
  /\ gpus = <<>>
  /\ selected_gpu = NoGpu
  /\ prompts = 0
  /\ files = [p \in Paths |-> Absent]
  /\ result = "none"
  /\ children = <<>>
  /\ fsOps = <<>>
  /\ infOutcome = "none"
  /\ files0 = [p \in Paths |-> Absent]
  /\ builtBefore = {}
  /\ builtBy = {}
  /\ answer = NoText
  /\ gpu_name = NoText

\* The operator starts the launcher: `python launcher.py [--gpu N] [args]`.
Start ==
  /\ pc \in {"idle", "exited"}
  /\ run < MaxRuns
  /\ run' = run + 1
  /\ pc' = "probe"
  /\ exitCode' = NoExit
  /\ argGpu' \in GpuArgs
  /\ inference_args' \in ArgLists
  /\ environ' \in Environs
  /\ smi' = "none"
  /\ gpus' = <<>>
  /\ selected_gpu' = NoGpu
  /\ prompts' = 0
  /\ result' = "none"
  /\ children' = <<>>
  /\ fsOps' = <<>>
  /\ infOutcome' = "none"
  /\ files0' = files
  /\ builtBefore' =
       builtBefore \cup (IF result = "MISS_BUILT" THEN {SelKey} ELSE {})
  /\ builtBy' =
       builtBy \cup (IF result = "MISS_BUILT" THEN {selected_gpu.name} ELSE {})
  /\ answer' = NoText
  /\ gpu_name' = NoText
  /\ UNCHANGED files

\* main, lines 106-110.
Probe ==
  /\ pc = "probe"
  /\ \E outcome \in {"missing", "nonzero", "ok"}, rows \in Reports :
       /\ gpus' = GetGpus(outcome, rows)
       /\ smi' = IF outcome = "ok" /\ UnparsableReport(rows)
                   THEN "unparsable" ELSE outcome
  /\ IF gpus' = <<>>
       THEN pc' = "exited" /\ exitCode' = 0
       ELSE pc' = "select" /\ exitCode' = NoExit
  /\ UNCHANGED <<run, argGpu, inference_args, environ, selected_gpu, prompts,
                 files, result, children, fsOps, infOutcome, files0,
                 builtBefore, builtBy, answer, gpu_name>>

\* Variant of ExplicitMiss: the `return` of line 123 is missing, so control
\* falls through to the interactive selection.
ExplicitMissFallsThrough == "interactive"

\* main, lines 121-123: `return` when no probed device has the index.
ExplicitMiss == "exited"

\* main, lines 113-123: the explicit selection.
SelectExplicit ==
  /\ pc = "select"
  /\ selected_gpu' = IF argGpu # NoGpuArg THEN FindGpu(gpus, argGpu) ELSE NoGpu
  /\ pc' = IF argGpu = NoGpuArg THEN "interactive"
           ELSE IF selected_gpu' = NoGpu THEN ExplicitMiss
           ELSE "manage"
  /\ exitCode' = IF pc' = "exited" THEN 0 ELSE NoExit
  /\ UNCHANGED <<run, argGpu, inference_args, environ, smi, gpus, prompts, files,
                 result, children, fsOps, infOutcome, files0, builtBefore, builtBy, answer, gpu_name>>

\* main, lines 126-134: nothing selected yet and one device.
SelectAuto ==
  /\ pc = "interactive"
  /\ selected_gpu = NoGpu
  /\ Len(gpus) = 1
  /\ selected_gpu' = gpus[1]
  /\ pc' = "manage"
  /\ UNCHANGED <<run, exitCode, argGpu, inference_args, environ, smi, gpus,
                 prompts, files, result, children, fsOps, infOutcome, files0,
                 builtBefore, builtBy, answer, gpu_name>>

\* Variant of Prompt that gives up after an invalid answer.
PromptGivesUp ==
  /\ pc = "interactive"
  /\ selected_gpu = NoGpu
  /\ Len(gpus) # 1
  /\ prompts < MaxPrompts
  /\ prompts' = prompts + 1
  /\ \E text \in Answers :
       /\ answer' = text
       /\ selected_gpu' =
            IF IsIntText(text) THEN FindGpu(gpus, ParseInt(text)) ELSE NoGpu
  /\ pc' = IF selected_gpu' # NoGpu THEN "manage" ELSE "exited"
  /\ UNCHANGED <<run, exitCode, argGpu, inference_args, environ, smi, gpus, files,
                 result, children, fsOps, infOutcome, files0, builtBefore,
                 builtBy, gpu_name>>

\* main, lines 136-146: one round of the prompt loop.
Prompt ==
  /\ pc = "interactive"
  /\ selected_gpu = NoGpu
  /\ Len(gpus) # 1
  /\ prompts < MaxPrompts
  /\ prompts' = prompts + 1
  /\ \E text \in Answers :
       /\ answer' = text
       /\ selected_gpu' =
            IF IsIntText(text) THEN FindGpu(gpus, ParseInt(text)) ELSE NoGpu
  /\ pc' = IF selected_gpu' # NoGpu THEN "manage" ELSE "interactive"
  /\ UNCHANGED <<run, exitCode, argGpu, inference_args, environ, smi, gpus, files,
                 result, children, fsOps, infOutcome, files0, builtBefore, builtBy, gpu_name>>

\* Variant of AfterManage that ignores the result of manage_engine.
AfterManageIgnored(ok) == "launch"

\* main, lines 152-153: sys.exit(1) unless manage_engine returned True.
AfterManage(ok) == IF ok THEN "launch" ELSE "exited"

\* Variant of ME_Check that never restores: the build is prepared whether or
\* not the cache file exists.
ME_CheckAlwaysBuilds ==
  /\ pc = "manage"
  /\ gpu_name' = get_sanitized_name(selected_gpu.name)
  /\ fsOps' = Append(fsOps, "exists_cache")
  /\ pc' = "build"
  /\ UNCHANGED <<run, exitCode, argGpu, inference_args, environ, smi, gpus,
                 selected_gpu, prompts, files, result, children, infOutcome,
                 files0, builtBefore, builtBy, answer>>

\* Variant of ME_Check whose Restore copies the active file over the cache
\* file (the arguments of copy2 swapped).
ME_CheckCopiesBackwards ==
  /\ pc = "manage"
  /\ gpu_name' = get_sanitized_name(selected_gpu.name)
  /\ IF files[<<"unet_work_">> \o gpu_name' \o <<".engine">>] # Absent
       THEN /\ files' = [files EXCEPT
                          ![<<"unet_work_">> \o gpu_name' \o <<".engine">>] =
                            files[<<"unet_work", ".engine">>]]
            /\ fsOps' = fsOps \o <<"exists_cache", "copy_cache_to_active">>
            /\ result' = "HIT"
            /\ pc' = "launch"
       ELSE /\ files' = files
            /\ fsOps' = Append(fsOps, "exists_cache")
            /\ result' = "none"
            /\ pc' = "build"
  /\ UNCHANGED <<run, exitCode, argGpu, inference_args, environ, smi, gpus,
                 selected_gpu, prompts, children, infOutcome, files0,
                 builtBefore, builtBy, answer>>

\* manage_engine, lines 48-68: Check, then Restore (HIT) or prepare the build.
ME_Check ==
  /\ pc = "manage"
  /\ gpu_name' = get_sanitized_name(selected_gpu.name)
  /\ IF Exists(files, cached_engine_path)
       THEN /\ files' = Copy2(files, cached_engine_path, active_engine_path)
            /\ fsOps' = fsOps \o <<"exists_cache", "copy_cache_to_active">>
            /\ result' = "HIT"
            /\ pc' = AfterManage(TRUE)
       ELSE /\ files' = files
            /\ fsOps' = Append(fsOps, "exists_cache")
            /\ result' = "none"
            /\ pc' = "build"
  /\ UNCHANGED <<run, exitCode, argGpu, inference_args, environ, smi, gpus,
                 selected_gpu, prompts, children, infOutcome, files0,
                 builtBefore, builtBy, answer>>

\* Variant of ME_Build that starts the build again when it exits non-zero.
ME_BuildRetries ==
  /\ pc = "build"
  /\ Len(children) < 3
  /\ children' = Append(children,
                        [script |-> "torch2trt.py",
                         env |-> {<<CVD, IntToStr(selected_gpu.index)>>},
                         args |-> <<>>])
  /\ \E writes \in BOOLEAN :
       files' = IF writes
                  THEN [files EXCEPT ![<<"unet_work", ".engine">>] =
                          [key |-> get_sanitized_name(selected_gpu.name),
                           run |-> run]]
                  ELSE files
  /\ \E status \in {0, 1} : pc' = IF status # 0 THEN "build" ELSE "verify"
  /\ UNCHANGED <<run, exitCode, argGpu, inference_args, environ, smi, gpus,
                 selected_gpu, prompts, result, fsOps, infOutcome, files0,
                 builtBefore, builtBy, answer, gpu_name>>

\* manage_engine, lines 70-75: the build child runs to completion.  It is a
\* black box: it may or may not write the active engine file, and exits with
\* status 0 or not.
ME_Build ==
  /\ pc = "build"
  /\ children' = Append(children,
                        [script |-> BUILD_SCRIPT,
                         env |-> ChildEnv(environ, selected_gpu.index),
                         args |-> <<>>])
  /\ \E writes \in BOOLEAN :
       files' = IF writes
                  THEN [files EXCEPT ![active_engine_path] = Engine(SelKey, run)]
                  ELSE files
  /\ \E status \in {0, 1} :
       IF status # 0
         THEN /\ result' = "FAILED"
              /\ pc' = AfterManage(FALSE)
              /\ exitCode' = 1
         ELSE /\ result' = "none"
              /\ pc' = "verify"
              /\ exitCode' = NoExit
  /\ UNCHANGED <<run, argGpu, inference_args, environ, smi, gpus, selected_gpu,
                 prompts, fsOps, infOutcome, files0, builtBefore, builtBy, answer, gpu_name>>

\* Variant of ME_Verify that ignores what os.path.exists returned.
ME_VerifyIgnoresResult ==
  /\ pc = "verify"
  /\ files' = [files EXCEPT
                 ![<<"unet_work_">> \o gpu_name \o <<".engine">>] =
                   files[<<"unet_work", ".engine">>]]
  /\ fsOps' = fsOps \o <<"exists_active", "copy_active_to_cache">>
  /\ result' = "MISS_BUILT"
  /\ pc' = "launch"
  /\ UNCHANGED <<run, exitCode, argGpu, inference_args, environ, smi, gpus,
                 selected_gpu, prompts, children, infOutcome, files0,
                 builtBefore, builtBy, answer, gpu_name>>

\* manage_engine, lines 77-84: Verify, then Persist (MISS-BUILT) or fail.
ME_Verify ==
  /\ pc = "verify"
  /\ IF Exists(files, active_engine_path)
       THEN /\ files' = Copy2(files, active_engine_path, cached_engine_path)
            /\ fsOps' = fsOps \o <<"exists_active", "copy_active_to_cache">>
            /\ result' = "MISS_BUILT"
            /\ pc' = AfterManage(TRUE)
            /\ exitCode' = NoExit
       ELSE /\ files' = files
            /\ fsOps' = Append(fsOps, "exists_active")
            /\ result' = "FAILED"
            /\ pc' = AfterManage(FALSE)
            /\ exitCode' = 1
  /\ UNCHANGED <<run, argGpu, inference_args, environ, smi, gpus, selected_gpu,
                 prompts, children, infOutcome, files0, builtBefore, builtBy, answer, gpu_name>>

\* manage_engine, line 80: the launcher is killed (SIGKILL, power loss, an
\* operator interrupt, which nothing here catches) while shutil.copy2 writes
\* the cache file.  copy2 writes the destination in place, so the file is
\* left with part of the engine.
ME_PersistKilled ==
  /\ pc = "verify"
  /\ Exists(files, active_engine_path)
  /\ files' = [files EXCEPT
                 ![cached_engine_path] = Truncated(files[active_engine_path])]
  /\ fsOps' = fsOps \o <<"exists_active", "copy_active_to_cache">>
  /\ result' = "KILLED"
  /\ pc' = "exited"
  /\ exitCode' = 1
  /\ UNCHANGED <<run, argGpu, inference_args, environ, smi, gpus, selected_gpu,
                 prompts, children, infOutcome, files0, builtBefore, builtBy,
                 answer, gpu_name>>

\* main, lines 155-160, and run_inference, lines 88-96: the inference child is
\* started.
Launch ==
  /\ pc = "launch"
  /\ children' = Append(children,
                        [script |-> INFERENCE_SCRIPT,
                         env |-> ChildEnv(environ, selected_gpu.index),
                         args |-> PassArgs(inference_args)])
  /\ pc' = "inference"
  /\ UNCHANGED <<run, exitCode, argGpu, inference_args, environ, smi, gpus,
                 selected_gpu, prompts, files, result, fsOps, infOutcome,
                 files0, builtBefore, builtBy, answer, gpu_name>>

\* Variant of InferenceEnd that lets KeyboardInterrupt propagate.
InferenceEndPropagates ==
  /\ pc = "inference"
  /\ infOutcome' \in {"exit0", "exit1", "KeyboardInterrupt"}
  /\ pc' = "exited"
  /\ exitCode' = IF infOutcome' = "KeyboardInterrupt" THEN 1 ELSE 0
  /\ UNCHANGED <<run, argGpu, inference_args, environ, smi, gpus, selected_gpu,
                 prompts, files, result, children, fsOps, files0, builtBefore,
                 builtBy, answer, gpu_name>>

\* Variant of InferenceEnd that exits with the status of the child.
InferenceEndReturnsStatus ==
  /\ pc = "inference"
  /\ infOutcome' \in {"exit0", "exit1", "KeyboardInterrupt"}
  /\ pc' = "exited"
  /\ exitCode' = IF infOutcome' = "exit1" THEN 1 ELSE 0
  /\ UNCHANGED <<run, argGpu, inference_args, environ, smi, gpus, selected_gpu,
                 prompts, files, result, children, fsOps, files0, builtBefore,
                 builtBy, answer, gpu_name>>

\* run_inference, lines 96-98: the wait for the inference child ends, by the
\* child's exit (any status: no check=True) or by KeyboardInterrupt, which is
\* swallowed; main then returns.
InferenceEnd ==
  /\ pc = "inference"
  /\ infOutcome' \in {"exit0", "exit1", "KeyboardInterrupt"}
  /\ pc' = "exited"
  /\ exitCode' = 0
  /\ UNCHANGED <<run, argGpu, inference_args, environ, smi, gpus, selected_gpu,
                 prompts, files, result, children, fsOps, files0, builtBefore, builtBy, answer, gpu_name>>

Next ==
  \/ Start
  \/ Probe
  \/ SelectExplicit
  \/ SelectAuto
  \/ Prompt
  \/ ME_Check
  \/ ME_Build
  \/ ME_Verify
  \/ Launch
  \/ InferenceEnd

Spec == Init /\ [][Next]_vars

\* The launcher in an environment that may kill it during Persist.
NextKill == Next \/ ME_PersistKilled

SpecKill == Init /\ [][NextKill]_vars

TypeOK ==
  /\ run \in 0..MaxRuns
  /\ pc \in {"idle", "probe", "select", "interactive", "manage", "build", "verify",
             "launch", "inference", "exited"}
  /\ exitCode \in {NoExit, 0, 1}
  /\ result \in {"none", "HIT", "MISS_BUILT", "FAILED", "KILLED"}
  /\ Len(children) <= 2

\* ---------------------------------------------- pass-through arguments
\* A launcher run about to launch inference (manage_engine has just built and
\* persisted the engine of the only device), for every pass-through list.
InitArgs ==
  /\ run = 1
  /\ pc = "launch"
  /\ exitCode = NoExit
  /\ argGpu = NoGpuArg
  /\ inference_args \in AllArgLists
  /\ environ = {}
  /\ smi = "ok"
  /\ gpus = ParseRows(<<GoodRow(0, <<"T", "4">>)>>)
  /\ selected_gpu = gpus[1]
  /\ prompts = 0
  /\ files = [p \in Paths |->
                IF p \in {ACTIVE_ENGINE_NAME, CachedEngineFilename(<<"T", "4">>)}
                  THEN Engine(<<"T", "4">>, 1) ELSE Absent]
  /\ result = "MISS_BUILT"
  /\ children = <<[script |-> BUILD_SCRIPT,
                   env |-> ChildEnv({}, 0),
                   args |-> <<>>]>>
  /\ fsOps = <<"exists_cache", "exists_active", "copy_active_to_cache">>
  /\ infOutcome = "none"
  /\ files0 = [p \in Paths |-> Absent]
  /\ builtBefore = {}
  /\ builtBy = {}
  /\ answer = NoText
  /\ gpu_name = <<"T", "4">>

NextArgs == Launch \/ InferenceEnd

SpecArgs == InitArgs /\ [][NextArgs]_vars

\* ------------------------------------------------------- sanitized names
\* Characters of device names: letters, a digit, and characters outside
\* [a-zA-Z0-9].
NameChars == {"R", "x", "3", " ", "-", "_"}

AllNames == UNION {[1..k -> NameChars] : k \in 0..MaxNameLen}

\* manage_engine is entered for a device of any name.
InitName ==
  /\ run = 1
  /\ pc = "line48"
  /\ exitCode = NoExit
  /\ argGpu = NoGpuArg
  /\ inference_args = <<>>
  /\ environ = {}
  /\ smi = "ok"
  /\ \E n \in AllNames :
       /\ gpus = <<[index |-> 0, name |-> n, memory |-> Memory]>>
       /\ selected_gpu = gpus[1]
  /\ prompts = 0
  /\ files = [p \in Paths |-> Absent]
  /\ result = "none"
  /\ children = <<>>
  /\ fsOps = <<>>
  /\ infOutcome = "none"
  /\ files0 = [p \in Paths |-> Absent]
  /\ builtBefore = {}
  /\ builtBy = {}
  /\ answer = NoText
  /\ gpu_name = NoText

\* manage_engine, line 48.
Sanitize ==
  /\ pc = "line48"
  /\ gpu_name' = get_sanitized_name(selected_gpu.name)
  /\ pc' = "line49"
  /\ UNCHANGED <<run, exitCode, argGpu, inference_args, environ, smi, gpus,
                 selected_gpu, prompts, files, result, children, fsOps,
                 infOutcome, files0, builtBefore, builtBy, answer>>

SpecName == InitName /\ [][Sanitize]_vars

\* ------------------------------------------------------------ properties
\* Number of build children started in the current run.
NBuilds ==
  Cardinality({i \in 1..Len(children) : children[i].script = BUILD_SCRIPT})

\* The inference child was started in the current run.
Launched == \E i \in 1..Len(children) : children[i].script = INFERENCE_SCRIPT

\* manage_engine has been invoked in the current run and has passed its Check.
PastCheck ==
  /\ selected_gpu # NoGpu
  /\ pc \in {"build", "verify", "launch", "inference", "exited"}

\* --gpu was given and no probed device has that index.
ExplicitNotFound ==
  /\ argGpu # NoGpuArg
  /\ gpus # <<>>
  /\ \A i \in 1..Len(gpus) : gpus[i].index # argGpu

\* The values a child environment gives to CUDA_VISIBLE_DEVICES.
CvdValues(env) == {p[2] : p \in {q \in env : q[1] = CVD}}

\* C1: when manage_engine has ended in HIT or MISS-BUILT, the cache file of
\* the selected device exists and the active engine file has its content.
C1_ActiveEqualsCache ==
  result \in {"HIT", "MISS_BUILT"} =>
    /\ Exists(files, cached_engine_path)
    /\ files[active_engine_path] = files[cached_engine_path]

\* A build has just been persisted over a directory whose active file held
\* another engine.
C1_Witness ==
  /\ result = "MISS_BUILT"
  /\ pc = "launch"
  /\ Exists(files0, active_engine_path)
  /\ files0[active_engine_path] # files[active_engine_path]

\* C2: while the inference process runs, the active engine file exists and
\* holds an engine produced for the cache key of the selected device.
C2_LaunchedEngineNotStale ==
  pc = "inference" =>
    /\ Exists(files, active_engine_path)
    /\ files[active_engine_path].key = SelKey

\* C3: when manage_engine has ended in FAILED, the run has exited with a
\* non-zero status and has started no inference process.
C3_FailedNeverLaunches ==
  result = "FAILED" => pc = "exited" /\ exitCode # 0 /\ ~Launched

\* The build exited zero, the active file was missing, and the run is over.
C3_Witness ==
  /\ result = "FAILED"
  /\ pc = "exited"
  /\ fsOps # <<>>
  /\ fsOps[Len(fsOps)] = "exists_active"

\* C4: in a run that invoked manage_engine while the cache file of the
\* selected device existed, no build is started, the outcome is HIT, and the
\* active file equals the cache file, which is unchanged.
C4_CacheHitNeverBuilds ==
  (PastCheck /\ Exists(files0, cached_engine_path)) =>
    /\ result = "HIT"
    /\ NBuilds = 0
    /\ files[active_engine_path] = files[cached_engine_path]
    /\ files[cached_engine_path] = files0[cached_engine_path]

\* A restore has just replaced an active file that differed from the cache.
C4_Witness ==
  /\ result = "HIT"
  /\ pc = "launch"
  /\ files0[active_engine_path] # files0[cached_engine_path]
  /\ files[active_engine_path] = files0[cached_engine_path]

\* C5: in a run for a device whose cache key ended MISS-BUILT in an earlier
\* run, manage_engine ends in HIT and no build is started.
C5_BuiltOnceThenRestored ==
  (PastCheck /\ SelKey \in builtBefore) => result = "HIT" /\ NBuilds = 0

\* Run 1 built and persisted the engine of this device, run 2 built for a
\* device with another key, and run 3 has restored the engine of run 1.
C5_Witness ==
  /\ run = 3
  /\ result = "HIT"
  /\ SelKey \in builtBefore
  /\ files[active_engine_path] = Engine(SelKey, 1)
  /\ files0[active_engine_path].run = 2
  /\ files0[active_engine_path].key # SelKey

\* C6: a run starts at most one build child, and a failed manage_engine has
\* left the build step for good.
C6_AtMostOneBuild ==
  /\ NBuilds <= 1
  /\ result = "FAILED" => pc = "exited"

\* The one build of the run has failed and the run is over.
C6_Witness == NBuilds = 1 /\ result = "FAILED" /\ pc = "exited"

\* C7: a run given a --gpu index that matches no probed device exits with a
\* non-zero status.
C7_NotFoundExitsNonZero ==
  (pc = "exited" /\ ExplicitNotFound) => exitCode # 0

\* C8: a run given a --gpu index that matches no probed device selects
\* nothing, prompts for nothing, does nothing to the engine directory, starts
\* no child, leaves the directory as it was, and exits.
C8_NotFoundNoSideEffect ==
  ExplicitNotFound =>
    /\ pc \in {"select", "exited"}
    /\ selected_gpu = NoGpu
    /\ prompts = 0
    /\ fsOps = <<>>
    /\ children = <<>>
    /\ files = files0

\* The run has ended on an index that the only probed device does not have,
\* with an engine directory that is not empty.
C8_Witness ==
  /\ pc = "exited"
  /\ ExplicitNotFound
  /\ Len(gpus) = 1
  /\ Exists(files, active_engine_path)

\* C9: once the probe is over, a failed nvidia-smi query or an empty device
\* list means: the list is empty, the run has exited with status 0, and it
\* selected nothing, prompted for nothing, did nothing to the engine
\* directory and started no child.
C9_NoDevicesExitsZero ==
  (/\ pc \notin {"idle", "probe"}
   /\ gpus = <<>> \/ smi \in {"missing", "nonzero", "unparsable"}) =>
    /\ gpus = <<>>
    /\ pc = "exited"
    /\ exitCode = 0
    /\ selected_gpu = NoGpu
    /\ prompts = 0
    /\ fsOps = <<>>
    /\ children = <<>>
    /\ files = files0

\* The report of nvidia-smi did not parse, and the run is over.
C9_Witness == pc = "exited" /\ smi = "unparsable" /\ exitCode = 0

\* C10: every child of the run has exactly one value of CUDA_VISIBLE_DEVICES,
\* a decimal number equal to the index of the selected device.
C10_ChildSeesSelectedDevice ==
  \A i \in 1..Len(children) :
    /\ Cardinality(CvdValues(children[i].env)) = 1
    /\ \A v \in CvdValues(children[i].env) :
         IsIntText(v) /\ ParseInt(v) = selected_gpu.index

\* Build and inference children were started for device 1 of two by a
\* launcher that inherited CUDA_VISIBLE_DEVICES=0,1.
C10_Witness ==
  /\ Len(children) = 2
  /\ children[1].script = BUILD_SCRIPT
  /\ children[2].script = INFERENCE_SCRIPT
  /\ environ # {}
  /\ Len(gpus) = 2
  /\ selected_gpu.index = 1

\* Number of elements of a list that equal the acceleration flag.
NFlags(l) == Cardinality({i \in 1..Len(l) : l[i] = "--acceleration"})

\* The arguments given to the inference child, once it is started.
Forwarded == {children[i].args :
                i \in {j \in 1..Len(children) :
                         children[j].script = INFERENCE_SCRIPT}}

\* C11: the inference child gets the caller's list unchanged when an element
\* of it is the flag, and otherwise the list followed by the flag and
\* "tensorrt"; the caller's arguments are a prefix of what it gets, and at
\* most one flag is added.
C11_FlagInjectedOnce ==
  \A out \in Forwarded :
    /\ IF NFlags(inference_args) > 0
         THEN out = inference_args
         ELSE out = inference_args \o <<"--acceleration", "tensorrt">>
    /\ SubSeq(out, 1, Len(inference_args)) = inference_args
    /\ NFlags(out) <= NFlags(inference_args) + 1
    /\ NFlags(out) >= 1

\* The caller's list holds the flag only inside a longer token, and the flag
\* was appended.
C11_Witness ==
  /\ pc = "inference"
  /\ NFlags(inference_args) = 0
  /\ \E i \in 1..Len(inference_args) : inference_args[i] = "--acceleration-mode"
  /\ \E out \in Forwarded : Len(out) = Len(inference_args) + 2

\* The run has gone on to manage_engine.
Proceeded ==
  \/ pc \in {"manage", "build", "verify", "launch", "inference"}
  \/ pc = "exited" /\ result # "none"

\* C12: in a run that has gone on to manage_engine the selected device is one
\* of the probed devices; with --gpu i it has index i and nothing was
\* prompted; without --gpu and with one probed device it is that device and
\* nothing was prompted; otherwise the operator was prompted.
C12_SelectorPrecedence ==
  Proceeded =>
    /\ \E i \in 1..Len(gpus) : selected_gpu = gpus[i]
    /\ argGpu # NoGpuArg => selected_gpu.index = argGpu /\ prompts = 0
    /\ (argGpu = NoGpuArg /\ Len(gpus) = 1) =>
         selected_gpu = gpus[1] /\ prompts = 0
    /\ (argGpu = NoGpuArg /\ Len(gpus) > 1) => prompts >= 1

\* --gpu 1 has selected the second of two probed devices.
C12_Witness ==
  /\ pc = "manage"
  /\ argGpu = 1
  /\ Len(gpus) = 2
  /\ selected_gpu = gpus[2]
  /\ selected_gpu # gpus[1]

\* The text is a number that is the index of a probed device.
IsProbedIndex(text) ==
  IsIntText(text) /\ \E i \in 1..Len(gpus) : gpus[i].index = ParseInt(text)

\* One round of the prompt loop: an answer is read.
PromptRound == pc = "interactive" /\ prompts' = prompts + 1

\* What a round of the prompt loop does with the answer it read.
PromptRoundOutcome ==
  IF IsProbedIndex(answer')
    THEN /\ pc' = "manage"
         /\ selected_gpu'.index = ParseInt(answer')
         /\ \E i \in 1..Len(gpus) : selected_gpu' = gpus[i]
    ELSE /\ pc' = "interactive"
         /\ selected_gpu' = NoGpu
         /\ exitCode' = NoExit
         /\ files' = files /\ children' = children /\ fsOps' = fsOps

\* C13: while the prompt loop runs, no device is selected and nothing was
\* done to the engine directory or started; a round that reads the index of a
\* probed device ends the loop with that device selected, and a round that
\* reads anything else selects nothing, does nothing and prompts again.
C13_PromptLoop ==
  /\ [](pc = "interactive" =>
          /\ selected_gpu = NoGpu
          /\ fsOps = <<>> /\ children = <<>> /\ files = files0)
  /\ [][PromptRound => PromptRoundOutcome]_vars

\* The second answer of the run was the index of a probed device, after a
\* first answer that was not.
C13_Witness ==
  /\ pc = "manage"
  /\ prompts = 2
  /\ IsProbedIndex(answer)
  /\ selected_gpu.index = ParseInt(answer)

\* C14: when KeyboardInterrupt ended the wait for the inference child, the
\* run has exited with status 0, and the inference child is the last thing it
\* started.
C14_InterruptSwallowed ==
  infOutcome = "KeyboardInterrupt" =>
    /\ pc = "exited"
    /\ exitCode = 0
    /\ children[Len(children)].script = INFERENCE_SCRIPT
    /\ Len(children) = NBuilds + 1

\* The run was interrupted while inference ran on a freshly built engine.
C14_Witness ==
  /\ infOutcome = "KeyboardInterrupt"
  /\ pc = "exited"
  /\ result = "MISS_BUILT"

\* manage_engine has tested whether the active engine file exists.
VerifyDone == \E i \in 1..Len(fsOps) : fsOps[i] = "exists_active"

\* C15: after Verify (reached only by a build that exited zero), a missing
\* active file means FAILED, no cache file for the device, a non-zero exit and
\* no inference; an existing one means MISS-BUILT with the cache file equal
\* to the active file.
C15_VerifyThenPersist ==
  /\ (VerifyDone /\ files[active_engine_path] = Absent) =>
       /\ result = "FAILED"
       /\ NBuilds = 1
       /\ files[cached_engine_path] = Absent
       /\ pc = "exited" /\ exitCode # 0 /\ ~Launched
  /\ (VerifyDone /\ files[active_engine_path] # Absent) =>
       /\ result = "MISS_BUILT"
       /\ NBuilds = 1
       /\ files[cached_engine_path] = files[active_engine_path]
       /\ pc \in {"launch", "inference", "exited"}
  /\ (result = "FAILED" /\ ~VerifyDone) => fsOps = <<"exists_cache">>

\* The build exited zero and left no active file: the run has failed without
\* creating a cache file.
C15_Witness ==
  /\ VerifyDone
  /\ files[active_engine_path] = Absent
  /\ result = "FAILED"
  /\ exitCode = 1
  /\ NBuilds = 1

\* The sanitized forms of two names are equal: the names have the same
\* length and agree in every position, up to characters outside [a-zA-Z0-9].
SameCacheKey(n1, n2) ==
  /\ Len(n1) = Len(n2)
  /\ \A i \in 1..Len(n1) :
       IF n1[i] \in Alnum THEN n2[i] = n1[i] ELSE n2[i] \notin Alnum

\* The cache files of the modelled device names.
CachePaths == Paths \ {ACTIVE_ENGINE_NAME}

\* The cache files of the devices whose sanitized name is not that of the
\* selected device.
OtherCachePaths ==
  {CachedEngineFilename(get_sanitized_name(n)) :
     n \in {m \in Names : ~SameCacheKey(m, selected_gpu.name)}}

\* C16: a run for a device whose sanitized name is that of a device that
\* ended MISS-BUILT in an earlier run is a HIT that starts no build and
\* restores what the cache file held; a HIT needs the cache file of the
\* selected device, and no run changes the cache file of a device with
\* another sanitized name.
C16_KeyIsSanitizedName ==
  /\ (PastCheck /\ \E n \in builtBy : SameCacheKey(n, selected_gpu.name)) =>
       /\ result = "HIT"
       /\ NBuilds = 0
       /\ files[active_engine_path] = files0[cached_engine_path]
  /\ result = "HIT" =>
       /\ Exists(files0, cached_engine_path)
       /\ files[active_engine_path] = files0[cached_engine_path]
  /\ selected_gpu # NoGpu =>
       \A p \in OtherCachePaths : files[p] = files0[p]

\* The engine that a device of another raw name built has been restored.
C16_Witness ==
  /\ result = "HIT"
  /\ pc = "launch"
  /\ selected_gpu.name \notin builtBy
  /\ \E n \in builtBy : SameCacheKey(n, selected_gpu.name)

\* C17: the sanitized name has the length of the name, keeps every ASCII
\* letter and digit in place, has '_' wherever the name has another
\* character, holds only characters of [A-Za-z0-9_], and is a fixed point of
\* the function; "RTX 3090" gives "RTX_3090".
C17_SanitizedName ==
  pc = "line49" =>
    /\ Len(gpu_name) = Len(selected_gpu.name)
    /\ \A i \in 1..Len(gpu_name) :
         /\ selected_gpu.name[i] \in Alnum => gpu_name[i] = selected_gpu.name[i]
         /\ selected_gpu.name[i] \notin Alnum => gpu_name[i] = "_"
         /\ gpu_name[i] \in Alnum \cup {"_"}
    /\ get_sanitized_name(gpu_name) = gpu_name
    /\ get_sanitized_name(<<"R", "T", "X", " ", "3", "0", "9", "0">>)
         = <<"R", "T", "X", "_", "3", "0", "9", "0">>

\* A name with a letter, a blank and a '-' has been sanitized.
C17_Witness ==
  /\ pc = "line49"
  /\ selected_gpu.name = <<"R", " ", "-">>
  /\ gpu_name = <<"R", "_", "_">>

\* A step changes a cache file only by creating it, in the Persist of a run
\* whose Check found it absent, from an existing active file.
CacheWriteIsPersist ==
  \A p \in CachePaths :
    files'[p] # files[p] =>
      /\ files[p] = Absent
      /\ files0[p] = Absent
      /\ pc = "verify"
      /\ p = cached_engine_path
      /\ files[active_engine_path] # Absent
      /\ files'[p] = files[active_engine_path]
      /\ result' = "MISS_BUILT"
      /\ NBuilds = 1

\* C18: no step deletes or overwrites a cache file; a cache file is written
\* only by Persist, in a run whose Check found it absent and whose build
\* exited zero with the active file present; runs that end in HIT or FAILED
\* leave every cache file as it was.
C18_CacheEntriesImmutable ==
  /\ [][CacheWriteIsPersist]_vars
  /\ [](result \in {"HIT", "FAILED"} =>
          \A p \in CachePaths : files[p] = files0[p])

\* A HIT in a directory where a later build created a second cache file next
\* to the first.
C18_Witness ==
  /\ result = "HIT"
  /\ \A p \in CachePaths : Exists(files, p)
  /\ \E p, q \in CachePaths : files[p].run # files[q].run

\* C19: every cache file that exists when manage_engine makes its Check
\* holds a complete engine.
C19_CacheEntriesComplete ==
  (pc = "manage" /\ Exists(files, CachedEngineFilename(SelKey))) =>
    "truncated" \notin DOMAIN files[CachedEngineFilename(SelKey)]

\* Number of inference children started in the current run.
NLaunches ==
  Cardinality({i \in 1..Len(children) : children[i].script = INFERENCE_SCRIPT})

\* C20: a run that launched inference exits with status 0 and launched it
\* once; a run that selected a device and exits non-zero ended in FAILED
\* without launching.
C20_ChildStatusIgnored ==
  /\ NLaunches <= 1
  /\ (pc = "exited" /\ Launched) => exitCode = 0
  /\ (pc = "exited" /\ selected_gpu # NoGpu /\ exitCode # 0) =>
       result = "FAILED" /\ ~Launched

\* The inference child exited non-zero and the launcher exited with 0.
C20_Witness == pc = "exited" /\ infOutcome = "exit1" /\ exitCode = 0

====
